---------------------------- MODULE Spec2Model ----------------------------
(***************************************************************************)
(* Model of pyslam's dense stereo visual-odometry pipeline                 *)
(* (pyslam/pipelines/dense_stereo.py) and of its cost functions            *)
(* (pyslam/costs.py).                                                      *)
(*                                                                         *)
(* Three specifications share this module:                                 *)
(*   Spec        the DenseStereoPipeline: track() and the coarse-to-fine   *)
(*               loop of _compute_frame_to_frame_motion;                   *)
(*   SolverSpec  the Gauss-Newton step-acceptance state machine of         *)
(*               Problem.solve (pyslam/problem.py is not part of the       *)
(*               sources at hand; it is modelled from the design text);    *)
(*   CostSpec    the evaluate() methods of the five cost functions.        *)
(***************************************************************************)
EXTENDS Integers, Sequences, FiniteSets, TLC

VARIABLES
    \* ---- DenseStereoPipeline ----
    camera,         \* self.camera
    first_pose,     \* self.first_pose
    keyframes,      \* self.keyframes
    pyrlevels,      \* self.pyrlevels
    pc,             \* position inside track(): "idle" or "loop"
    params,         \* local params['T_1_0'] of _compute_frame_to_frame_motion
    level_queue,    \* levels the for loop has still to visit
    calls,          \* number of track() calls made so far
    raised,         \* exception that ended the last track() call, or "none"
    problems,       \* number of Problem objects constructed so far
    solve_log,      \* one record per level visited in the current track()
    \* ---- Problem.solve ----
    s_state, s_cur, s_cost, s_best, s_best_cost, s_nondec, s_iters,
    s_hist, s_ret,
    \* ---- cost functions ----
    c_kind, c_in, c_flags, c_out, c_ref

pipeline_vars == <<camera, first_pose, keyframes, pyrlevels, pc, params,
                   level_queue, calls, raised, problems, solve_log>>
solver_vars == <<s_state, s_cur, s_cost, s_best, s_best_cost, s_nondec,
                 s_iters, s_hist, s_ret>>
cost_vars == <<c_kind, c_in, c_flags, c_out, c_ref>>
vars == <<pipeline_vars, solver_vars, cost_vars>>

-----------------------------------------------------------------------------
(* Bounds *)

PosMod == 2         \* translations of the stand-in group are taken mod PosMod
MaxFrames == 3      \* track() is called at most MaxFrames times
MaxPix == 3         \* CostSpec: reference images of at most MaxPix pixels
MaxPyrLevels == 4   \* self.pyrlevels ranges over 1..MaxPyrLevels
MaxIterations == 5  \* SolverSpec: options.max_iters

-----------------------------------------------------------------------------
(***************************************************************************)
(* Stand-in for liegroups.SE3: planar rigid motions with rotations by      *)
(* multiples of 90 degrees and translations on a PosMod x PosMod torus.    *)
(* It is a finite, non-commutative group, so that the order of a           *)
(* composition and a missing inverse are both observable.                  *)
(***************************************************************************)
Pose == [r : 0..3, x : 0..(PosMod - 1), y : 0..(PosMod - 1)]

\* An undefined (NaN-filled) transformation; it absorbs every composition.
NaNPose == [r |-> -1, x |-> -1, y |-> -1]

Identity == [r |-> 0, x |-> 0, y |-> 0]

\* Rotation of the vector (x, y) by r quarter turns.
RotX(r, x, y) ==
    CASE r = 0 -> x % PosMod
      [] r = 1 -> (0 - y) % PosMod
      [] r = 2 -> (0 - x) % PosMod
      [] r = 3 -> y % PosMod

RotY(r, x, y) ==
    CASE r = 0 -> y % PosMod
      [] r = 1 -> x % PosMod
      [] r = 2 -> (0 - y) % PosMod
      [] r = 3 -> (0 - x) % PosMod

\* a * b : first b, then a.
Compose(a, b) ==
    IF a = NaNPose \/ b = NaNPose THEN NaNPose
    ELSE [r |-> (a.r + b.r) % 4,
          x |-> (a.x + RotX(a.r, b.x, b.y)) % PosMod,
          y |-> (a.y + RotY(a.r, b.x, b.y)) % PosMod]

\* a.inv()
Inv(a) ==
    IF a = NaNPose THEN NaNPose
    ELSE LET ri == (4 - a.r) % 4
         IN [r |-> ri,
             x |-> (0 - RotX(ri, a.x, a.y)) % PosMod,
             y |-> (0 - RotY(ri, a.x, a.y)) % PosMod]

\* log : group -> tangent vector; a chart that sends the identity to zero.
Log(a) == <<a.x, a.y, a.r>>

\* T * p : the action of a transformation on a point <<x, y>>.
Apply(a, p) ==
    <<(a.x + RotX(a.r, p[1], p[2])) % PosMod,
      (a.y + RotY(a.r, p[1], p[2])) % PosMod>>

\* Integer cosine and sine of r quarter turns.
Cos4(r) == CASE r = 0 -> 1 [] r = 1 -> 0 [] r = 2 -> -1 [] r = 3 -> 0
Sin4(r) == CASE r = 0 -> 0 [] r = 1 -> 1 [] r = 2 -> 0 [] r = 3 -> -1

\* T.rot.as_matrix()
RotMatrix(a) == << <<Cos4(a.r), 0 - Sin4(a.r)>>, <<Sin4(a.r), Cos4(a.r)>> >>

\* T.adjoint(), in the tangent coordinates (x, y, theta).
Adjoint(a) ==
    << <<Cos4(a.r), 0 - Sin4(a.r), a.y>>,
       <<Sin4(a.r), Cos4(a.r), 0 - a.x>>,
       <<0, 0, 1>> >>

\* SE3.odot(p): derivative of T * p with respect to a left perturbation of T.
Odot(p) == << <<1, 0, 0 - p[2]>>, <<0, 1, p[1]>> >>

-----------------------------------------------------------------------------
(* numpy stand-ins: vectors are sequences, matrices are sequences of rows *)

RECURSIVE SumTo(_, _)
SumTo(f, n) == IF n = 0 THEN 0 ELSE f[n] + SumTo(f, n - 1)

\* np.dot(u, v) of two vectors
VecDot(u, v) == SumTo([k \in 1..Len(u) |-> u[k] * v[k]], Len(u))

\* np.dot(M, v)
MatVec(M, v) == [i \in 1..Len(M) |-> VecDot(M[i], v)]

\* np.dot(A, B)
MatMul(A, B) ==
    [i \in 1..Len(A) |->
        [j \in 1..Len(B[1]) |->
            SumTo([k \in 1..Len(B) |-> A[i][k] * B[k][j]], Len(B))]]

\* -M
MatNeg(M) == [i \in 1..Len(M) |-> [j \in 1..Len(M[i]) |-> 0 - M[i][j]]]

\* np.identity(n)
IdentityMatrix(n) == [i \in 1..n |-> [j \in 1..n |-> IF i = j THEN 1 ELSE 0]]

\* obstype.dof
Dof == 3

\* Python values that may be None are tagged: None, or Some(v).
None == [none |-> TRUE]
Some(v) == [none |-> FALSE, value |-> v]

\* `if compute_jacobians:` -- None and the empty list are false, every
\* non-empty list is true, whatever its entries.
Truthy(flags) == ~flags.none /\ Len(flags.value) > 0

\* a[mask] with a boolean mask of the same length (numpy boolean indexing)
RECURSIVE BoolIndex(_, _)
BoolIndex(a, mask) ==
    IF Len(a) = 0 THEN <<>>
    ELSE IF mask[1] THEN <<a[1]>> \o BoolIndex(Tail(a), Tail(mask))
         ELSE BoolIndex(Tail(a), Tail(mask))

-----------------------------------------------------------------------------
(***************************************************************************)
(* pyslam/costs.py.  evaluate(params, compute_jacobians) returns the bare  *)
(* residual when compute_jacobians is false, and the pair                  *)
(* (residual, jacobians) otherwise; an evaluation that raises returns      *)
(* nothing.                                                                *)
(***************************************************************************)
Returned(residual, jacobians) ==
    [status |-> "returned", residual |-> residual, jacobians |-> jacobians,
     exc |-> "none"]

Raised(exc) ==
    [status |-> "raised", residual |-> <<>>, jacobians |-> None, exc |-> exc]

\* QuadraticCost.evaluate; self = [x, y, stiffness], params = <<a, b, c>>
QuadraticCost_evaluate(self, ps, compute_jacobians) ==
    LET residual == <<self.stiffness * (ps[1] * self.x * self.x
                                        + ps[2] * self.x
                                        + ps[3]
                                        - self.y)>>
        jacobians ==
            [i \in 1..Len(ps) |->
                IF compute_jacobians.value[i]
                THEN Some(CASE i = 1 -> self.stiffness * self.x * self.x
                            [] i = 2 -> self.stiffness * self.x
                            [] i = 3 -> self.stiffness * 1)
                ELSE None]
    IN IF Truthy(compute_jacobians)
       THEN Returned(residual, Some(jacobians))
       ELSE Returned(residual, None)

\* PoseCost.evaluate; self = [T_obs, stiffness], params = <<T_est>>
PoseCost_evaluate(self, ps, compute_jacobians) ==
    LET T_est == ps[1]
        residual == MatVec(self.stiffness,
                           Log(Compose(T_est, Inv(self.T_obs))))
        jacobians ==
            [i \in 1..Len(ps) |->
                IF compute_jacobians.value[i]
                THEN Some(MatMul(self.stiffness, IdentityMatrix(Dof)))
                ELSE None]
    IN IF Truthy(compute_jacobians)
       THEN Returned(residual, Some(jacobians))
       ELSE Returned(residual, None)

\* (variant of PoseToPoseLoop: the first estimate is not inverted)
PoseToPoseLoop_NoInverse(T_1_0_est, T_2_0_est, T_2_1_obs) ==
    Compose(Compose(T_2_0_est, T_1_0_est), Inv(T_2_1_obs))

\* The group element whose logarithm is PoseToPoseCost's residual:
\* T_2_0_est * T_1_0_est.inv() * self.T_2_1_obs.inv()
PoseToPoseLoop(T_1_0_est, T_2_0_est, T_2_1_obs) ==
    Compose(Compose(T_2_0_est, Inv(T_1_0_est)), Inv(T_2_1_obs))

\* PoseToPoseCost.evaluate; self = [T_2_1_obs, stiffness],
\* params = <<T_1_0_est, T_2_0_est>>
PoseToPoseCost_evaluate(self, ps, compute_jacobians) ==
    LET T_1_0_est == ps[1]
        T_2_0_est == ps[2]
        residual == MatVec(self.stiffness,
                           Log(PoseToPoseLoop(T_1_0_est, T_2_0_est,
                                              self.T_2_1_obs)))
        jacobians ==
            [i \in 1..Len(ps) |->
                IF compute_jacobians.value[i]
                THEN Some(CASE i = 1 -> MatMul(self.stiffness,
                                               MatNeg(Adjoint(T_2_0_est)))
                            [] i = 2 -> MatMul(self.stiffness,
                                               IdentityMatrix(Dof)))
                ELSE None]
    IN IF Truthy(compute_jacobians)
       THEN Returned(residual, Some(jacobians))
       ELSE Returned(residual, None)

\* camera.project(pt): an affine stand-in for the camera's projection.  The
\* predicted observation does not depend on whether the Jacobian is asked for.
CameraProject(cam, pt) == <<cam.fu * pt[1] + cam.cu, cam.fv * pt[2] + cam.cv>>

\* The Jacobian camera.project(pt, compute_jacobians=True) also returns.
CameraProjectJacobian(cam, pt) == << <<cam.fu, 0>>, <<0, cam.fv>> >>

\* predicted_obs - self.obs
VecSub(u, v) == [i \in 1..Len(u) |-> u[i] - v[i]]

\* ReprojectionCost.evaluate; self = [camera, obs, stiffness],
\* params = <<T_cam_w, pt_w>>
ReprojectionCost_evaluate(self, ps, compute_jacobians) ==
    LET T_cam_w == ps[1]
        pt_w == ps[2]
        pt_cam == Apply(T_cam_w, pt_w)
        predicted_obs == CameraProject(self.camera, pt_cam)
        cam_jacobian == CameraProjectJacobian(self.camera, pt_cam)
        residual == MatVec(self.stiffness, VecSub(predicted_obs, self.obs))
        jacobians ==
            [i \in 1..Len(ps) |->
                IF compute_jacobians.value[i]
                THEN Some(CASE i = 1 ->
                                MatMul(self.stiffness,
                                       MatMul(cam_jacobian, Odot(pt_cam)))
                            [] i = 2 ->
                                MatMul(self.stiffness,
                                       MatMul(cam_jacobian,
                                              RotMatrix(T_cam_w))))
                ELSE None]
    IN IF Truthy(compute_jacobians)
       THEN Returned(residual, Some(jacobians))
       ELSE Returned(MatVec(self.stiffness,
                            VecSub(CameraProject(self.camera, pt_cam),
                                   self.obs)),
                     None)

(***************************************************************************)
(* PhotometricCost.  Every per-pixel array is a sequence whose entries     *)
(* carry the index (in the flattened meshgrid) of the reference pixel they *)
(* were computed from, so that the selection and the order of the pixels   *)
(* can be followed through both filters.                                   *)
(*   self.n           camera.w * camera.h, the size of the meshgrid        *)
(*   self.valid_disp  per pixel: is_valid_measurement holds of its         *)
(*                    (u, v, disparity) in the reference image             *)
(*   self.valid_warp  per pixel: is_valid_measurement holds of its         *)
(*                    projection into the tracking image under params[0]   *)
(***************************************************************************)

\* self.u.flatten(), self.disp_ref.flatten(), self.im_ref.flatten(), ...
Flatten(n) == [i \in 1..n |-> i]

\* self.camera.is_valid_measurement(uvd_ref)
ValidRef(self, uvd_ref) ==
    [i \in 1..Len(uvd_ref) |-> self.valid_disp[uvd_ref[i]]]

\* self.camera.is_valid_measurement(uvd_track)
ValidTrack(self, uvd_track) ==
    [i \in 1..Len(uvd_track) |-> self.valid_warp[uvd_track[i]]]

\* (variant of ImJacTrackFilter: the second filter is not applied to im_jac)
ImJacTrackFilter_Unfiltered(im_jac, valid_track) == im_jac

\* im_jac = im_jac[valid_track, :]
ImJacTrackFilter(im_jac, valid_track) == BoolIndex(im_jac, valid_track)

\* np.bmat(jac_blocks): concatenating an empty list of rows raises
\* ValueError ("need at least one array to concatenate").
BmatRaises(jac_blocks) == Len(jac_blocks) = 0

\* PhotometricCost.evaluate; params = <<T_track_ref>>
PhotometricCost_evaluate(self, ps, compute_jacobians) ==
    LET want == Truthy(compute_jacobians)
        uvd_ref0 == Flatten(self.n)
        im_ref_true0 == Flatten(self.n)
        im_jac0 == Flatten(self.n)
        valid_ref == ValidRef(self, uvd_ref0)
        uvd_ref == BoolIndex(uvd_ref0, valid_ref)
        im_ref_true1 == BoolIndex(im_ref_true0, valid_ref)
        im_jac1 == BoolIndex(im_jac0, valid_ref)
        \* triangulate, transform and project act row by row
        pt_ref == uvd_ref
        pt_track0 == pt_ref
        uvd_track0 == pt_track0
        project_jac0 == pt_track0
        valid_track == ValidTrack(self, uvd_track0)
        uvd_track == BoolIndex(uvd_track0, valid_track)
        pt_track == BoolIndex(pt_track0, valid_track)
        im_ref_true == BoolIndex(im_ref_true1, valid_track)
        im_jac == ImJacTrackFilter(im_jac1, valid_track)
        project_jac == BoolIndex(project_jac0, valid_track)
        residual ==
            [i \in 1..Len(uvd_track) |->
                [im_ref_est |-> uvd_track[i], im_ref_true |-> im_ref_true[i]]]
        jac_blocks ==
            [i \in 1..Len(residual) |->
                [im_jac |-> im_jac[i],
                 project_jac |-> project_jac[i],
                 pt_track |-> pt_track[i]]]
        jacobians ==
            [i \in 1..Len(ps) |->
                IF compute_jacobians.value[i] THEN Some(jac_blocks) ELSE None]
    IN IF want
       THEN IF compute_jacobians.value[1] /\ BmatRaises(jac_blocks)
            THEN Raised("ValueError")
            ELSE Returned(residual, Some(jacobians))
       ELSE Returned(residual, None)

-----------------------------------------------------------------------------
(* CostSpec: the inputs of one evaluation are drawn by the initial state *)

\* compute_jacobians for a cost function of n parameters: None (the default)
\* or one flag per parameter.
FlagVectors(n) == {None} \cup {Some(f) : f \in [1..n -> BOOLEAN]}

\* stiffness matrices of a pose cost (Dof x Dof)
PoseStiffnesses ==
    { IdentityMatrix(Dof),
      << <<2, 0, 0>>, <<1, 3, 0>>, <<0, 0, 1>> >> }

\* stiffness matrices of a reprojection cost (2 x 2)
PixelStiffnesses == { IdentityMatrix(2), << <<2, 1>>, <<0, 1>> >> }

\* the camera of the reprojection cost
ReprojectionCamera == [fu |-> 2, fv |-> 3, cu |-> 1, cv |-> 1]

QuadraticInputs ==
    [self : [x : 0..1, y : 0..1, stiffness : {1, 2}],
     params : {<<1, 0, 1>>, <<0, 2, 1>>}]

PoseInputs ==
    [self : [T_obs : Pose, stiffness : PoseStiffnesses],
     params : {<<t>> : t \in Pose}]

PoseToPoseInputs ==
    [self : [T_2_1_obs : {Identity, [r |-> 1, x |-> 1, y |-> 0]},
             stiffness : PoseStiffnesses],
     params : {<<a, b>> : a \in Pose, b \in Pose}]

ReprojectionInputs ==
    [self : [camera : {ReprojectionCamera}, obs : {<<1, 1>>, <<3, 4>>},
             stiffness : PixelStiffnesses],
     params : {<<t, <<px, py>> >> :
                  t \in Pose, px \in 0..(PosMod - 1), py \in 0..(PosMod - 1)}]

PhotometricInputs ==
    UNION { [self : [n : {n}, valid_disp : [1..n -> BOOLEAN],
                     valid_warp : [1..n -> BOOLEAN]],
             params : {<<Identity>>}] : n \in 1..MaxPix }

CostKinds == {"QuadraticCost", "PoseCost", "PoseToPoseCost",
              "ReprojectionCost", "PhotometricCost"}

InputsOf(kind) ==
    CASE kind = "QuadraticCost" -> QuadraticInputs
      [] kind = "PoseCost" -> PoseInputs
      [] kind = "PoseToPoseCost" -> PoseToPoseInputs
      [] kind = "ReprojectionCost" -> ReprojectionInputs
      [] kind = "PhotometricCost" -> PhotometricInputs

\* no evaluation has been made yet
Pending ==
    [status |-> "pending", residual |-> <<>>, jacobians |-> None,
     exc |-> "none"]

-----------------------------------------------------------------------------
(***************************************************************************)
(* pyslam/pipelines/dense_stereo.py                                        *)
(***************************************************************************)

\* The camera handed to DenseStereoPipeline.__init__.  The intrinsics are
\* multiples of a power of two, so that every pyrfactor scales them exactly.
BaseCamera == [fu |-> 64, fv |-> 64, cu |-> 32, cv |-> 16, w |-> 4, h |-> 2]

\* Shape <<rows, columns>> of the images handed to track().
FrameShape == <<2, 4>>

\* Shape of cv2.pyrDown(im)
PyrDownShape(shape) == <<(shape[1] + 1) \div 2, (shape[2] + 1) \div 2>>

\* Shapes of DenseKeyframe.image[0 .. n-1]; level l is entry l + 1.
RECURSIVE PyramidShapes(_, _)
PyramidShapes(shape, n) ==
    IF n = 0 THEN <<>>
    ELSE <<shape>> \o PyramidShapes(PyrDownShape(shape), n - 1)

\* DenseKeyframe(im_left, im_right, pyrlevels, T_c_w, ...).  T_1_0 is not a
\* field of the class: it records the relative pose the keyframe's world
\* pose was composed from (None for the first keyframe).
DenseKeyframe(shape, n, T_c_w) ==
    [pyrlevels |-> n, T_c_w |-> T_c_w, image |-> PyramidShapes(shape, n),
     T_1_0 |-> None]

\* 2 ** n
RECURSIVE Pow2(_)
Pow2(n) == IF n = 0 THEN 1 ELSE 2 * Pow2(n - 1)

\* list(range(n)) followed by .reverse()
ReversedRange(n) == [i \in 1..n |-> n - i]

\* pyrlevel_sequence[:-1], the levels the for loop visits
LoopLevels(n) ==
    LET pyrlevel_sequence == ReversedRange(n)
    IN SubSeq(pyrlevel_sequence, 1, Len(pyrlevel_sequence) - 1)

\* pyr_camera: a deep copy of self.camera, scaled by pyrfactor = 1 / 2**level
\* and resized to im_ref.shape
PyrCamera(cam, pyrlevel, im_ref_shape) ==
    [fu |-> cam.fu \div Pow2(pyrlevel),
     fv |-> cam.fv \div Pow2(pyrlevel),
     cu |-> cam.cu \div Pow2(pyrlevel),
     cv |-> cam.cv \div Pow2(pyrlevel),
     w |-> im_ref_shape[2],
     h |-> im_ref_shape[1]]

\* (variant of CameraAfterLevel: pyr_camera = self.camera, no deep copy)
CameraAfterLevel_Alias(cam, pyrlevel, im_ref_shape) ==
    PyrCamera(cam, pyrlevel, im_ref_shape)

\* self.camera after one pass of the loop body: copy.deepcopy leaves it alone
CameraAfterLevel(cam, pyrlevel, im_ref_shape) == cam

\* (variant of LevelSeed: every level starts from the identity)
LevelSeed_NoWarmStart(ps) == Identity

\* The value problem.initialize_params(params) gives the block 'T_1_0'
LevelSeed(ps) == ps

\* trackframe.T_c_w = T_1_0 * self.keyframes[-1].T_c_w
NewKeyframePose(T_1_0, T_prev) == Compose(T_1_0, T_prev)

\* ---- pyslam.problem (not among the sources; from the design text) ----

\* Problem(options): no residual blocks, no parameters
Problem_new(id) == [id |-> id, residual_blocks |-> <<>>, param_dict |-> <<>>]

\* problem.add_residual_block(residual, param_keys)
Problem_add_residual_block(problem, residual, param_keys) ==
    [problem EXCEPT !.residual_blocks =
        Append(@, [residual |-> residual, keys |-> param_keys])]

\* problem.initialize_params(param_dict): one block per key of the dict;
\* the dict is a sequence of <<key, value>> pairs here
Problem_initialize_params(problem, dict) ==
    [problem EXCEPT !.param_dict = dict]

\* Terminal states of Problem.solve
Terminal == {"Converged", "MaxIterationsReached",
             "NonDecreasingLimitExceeded", "SolverFailure"}

\* Poses a solve may end on: the identity and two motions that do not commute
SolveValues == {Identity, [r |-> 1, x |-> 0, y |-> 0],
                [r |-> 0, x |-> 1, y |-> 0]}

\* What solve() hands back after a solver failure.  The design text excepts
\* SolverFailure from "returns the best values observed" and warns callers
\* of an undefined estimate; solve() returns nothing but the parameters.  So
\* the values returned are either undefined (as the failed step left them) or
\* the estimate held before the failing step.
FailureModes == {"undefined", "pre"}

\* The photometric residual block of one level, as the solver evaluates it:
\* one pose parameter, its Jacobian requested.
LevelEvaluation(cam, valid_disp, valid_warp, seed) ==
    PhotometricCost_evaluate(
        [n |-> cam.w * cam.h, valid_disp |-> valid_disp,
         valid_warp |-> valid_warp],
        <<seed>>, Some(<<TRUE>>))

\* Lines 112-133 of the loop body: the level's camera and its Problem
LevelSetup(pyrlevel) ==
    LET ref_frame == keyframes[Len(keyframes)]
        im_ref_shape == ref_frame.image[pyrlevel + 1]
        pyr_camera == PyrCamera(camera, pyrlevel, im_ref_shape)
        p0 == Problem_new(problems + 1)
        p1 == Problem_add_residual_block(p0, "PhotometricResidual",
                                         <<"T_1_0">>)
        p2 == Problem_initialize_params(p1, << <<"T_1_0", LevelSeed(params)>> >>)
    IN [pyrlevel |-> pyrlevel, im_ref_shape |-> im_ref_shape,
        pyr_camera |-> pyr_camera, problem |-> p2]

LogEntry(setup, status, result, pre) ==
    [level |-> setup.pyrlevel, problem |-> setup.problem,
     pyr_camera |-> setup.pyr_camera, status |-> status,
     result |-> result, pre |-> pre]

others_parked_for_pipeline == UNCHANGED <<solver_vars, cost_vars>>

\* track(), first frame: the keyframe takes first_pose, nothing is solved
TrackFirst ==
    /\ pc = "idle"
    /\ calls < MaxFrames
    /\ Len(keyframes) = 0
    /\ keyframes' = Append(keyframes,
                           DenseKeyframe(FrameShape, pyrlevels, first_pose))
    /\ calls' = calls + 1
    /\ raised' = "none"
    /\ solve_log' = <<>>
    /\ UNCHANGED <<camera, first_pose, pyrlevels, pc, params, level_queue,
                   problems>>
    /\ others_parked_for_pipeline

\* track(), later frames: enter _compute_frame_to_frame_motion
TrackBegin ==
    /\ pc = "idle"
    /\ calls < MaxFrames
    /\ Len(keyframes) # 0
    /\ calls' = calls + 1
    /\ raised' = "none"
    /\ params' = Identity
    /\ level_queue' = LoopLevels(pyrlevels)
    /\ solve_log' = <<>>
    /\ pc' = "loop"
    /\ UNCHANGED <<camera, first_pose, keyframes, pyrlevels, problems>>
    /\ others_parked_for_pipeline

\* One pass of the loop body whose solve ends in a terminal state other than
\* SolverFailure and returns a value
LevelSolved ==
    /\ pc = "loop"
    /\ level_queue # <<>>
    /\ LET setup == LevelSetup(Head(level_queue))
           n == setup.pyr_camera.w * setup.pyr_camera.h
       IN /\ \E vd \in [1..n -> BOOLEAN], vw \in [1..n -> BOOLEAN] :
                LevelEvaluation(setup.pyr_camera, vd, vw,
                                LevelSeed(params)).status = "returned"
          /\ \E status \in Terminal \ {"SolverFailure"}, value \in SolveValues :
                /\ params' = value
                /\ solve_log' = Append(solve_log,
                                       LogEntry(setup, status, Some(value),
                                                None))
          /\ camera' = CameraAfterLevel(camera, setup.pyrlevel,
                                        setup.im_ref_shape)
    /\ problems' = problems + 1
    /\ level_queue' = Tail(level_queue)
    /\ UNCHANGED <<first_pose, keyframes, pyrlevels, pc, calls, raised>>
    /\ others_parked_for_pipeline

\* One pass of the loop body whose solve ends in SolverFailure
LevelSolverFailure ==
    /\ pc = "loop"
    /\ level_queue # <<>>
    /\ LET setup == LevelSetup(Head(level_queue))
           n == setup.pyr_camera.w * setup.pyr_camera.h
       IN /\ \E vd \in [1..n -> BOOLEAN], vw \in [1..n -> BOOLEAN] :
                LevelEvaluation(setup.pyr_camera, vd, vw,
                                LevelSeed(params)).status = "returned"
          /\ \E pre \in SolveValues, mode \in FailureModes :
                LET ret == IF mode = "undefined" THEN NaNPose ELSE pre
                IN /\ params' = ret
                   /\ solve_log' = Append(solve_log,
                                          LogEntry(setup, "SolverFailure",
                                                   Some(ret), Some(pre)))
          /\ camera' = CameraAfterLevel(camera, setup.pyrlevel,
                                        setup.im_ref_shape)
    /\ problems' = problems + 1
    /\ level_queue' = Tail(level_queue)
    /\ UNCHANGED <<first_pose, keyframes, pyrlevels, pc, calls, raised>>
    /\ others_parked_for_pipeline

\* One pass of the loop body in which no pixel of the level is valid: the
\* evaluation raises, nothing catches it, and track() ends without a keyframe
LevelEvaluateRaises ==
    /\ pc = "loop"
    /\ level_queue # <<>>
    /\ LET setup == LevelSetup(Head(level_queue))
           n == setup.pyr_camera.w * setup.pyr_camera.h
       IN /\ \E vd \in [1..n -> BOOLEAN], vw \in [1..n -> BOOLEAN] :
                LET ev == LevelEvaluation(setup.pyr_camera, vd, vw,
                                          LevelSeed(params))
                IN /\ ev.status = "raised"
                   /\ raised' = ev.exc
          /\ solve_log' = Append(solve_log,
                                 LogEntry(setup, "NoValidResiduals", None,
                                          None))
          /\ camera' = CameraAfterLevel(camera, setup.pyrlevel,
                                        setup.im_ref_shape)
    /\ problems' = problems + 1
    /\ pc' = "idle"
    /\ level_queue' = <<>>
    /\ UNCHANGED <<first_pose, keyframes, pyrlevels, params, calls>>
    /\ others_parked_for_pipeline

\* The loop is over: return params['T_1_0'], compose, append the keyframe
TrackEnd ==
    /\ pc = "loop"
    /\ level_queue = <<>>
    /\ LET T_1_0 == params
           last == keyframes[Len(keyframes)]
           trackframe == DenseKeyframe(FrameShape, pyrlevels, Identity)
       IN keyframes' = Append(keyframes,
              [trackframe EXCEPT !.T_c_w = NewKeyframePose(T_1_0, last.T_c_w),
                                 !.T_1_0 = Some(T_1_0)])
    /\ pc' = "idle"
    /\ UNCHANGED <<camera, first_pose, pyrlevels, params, level_queue, calls,
                   raised, problems, solve_log>>
    /\ others_parked_for_pipeline

SolverParked ==
    /\ s_state = "parked" /\ s_cur = 0 /\ s_cost = 0 /\ s_best = 0
    /\ s_best_cost = 0 /\ s_nondec = 0 /\ s_iters = 0 /\ s_hist = <<>>
    /\ s_ret = None

CostParked ==
    /\ c_kind = "parked" /\ c_in = None /\ c_flags = None /\ c_out = Pending
    /\ c_ref = Pending

PipelineParked ==
    /\ camera = BaseCamera /\ first_pose = Identity /\ keyframes = <<>>
    /\ pyrlevels = 1 /\ pc = "parked" /\ params = Identity
    /\ level_queue = <<>> /\ calls = 0 /\ raised = "none" /\ problems = 0
    /\ solve_log = <<>>

PipelineInit ==
    /\ camera = BaseCamera
    /\ first_pose \in {Identity, [r |-> 1, x |-> 1, y |-> 0]}
    /\ keyframes = <<>>
    /\ pyrlevels \in 1..MaxPyrLevels
    /\ pc = "idle"
    /\ params = Identity
    /\ level_queue = <<>>
    /\ calls = 0
    /\ raised = "none"
    /\ problems = 0
    /\ solve_log = <<>>

Init == PipelineInit /\ SolverParked /\ CostParked

Next ==
    \/ TrackFirst
    \/ TrackBegin
    \/ LevelSolved
    \/ LevelSolverFailure
    \/ LevelEvaluateRaises
    \/ TrackEnd

Spec == Init /\ [][Next]_vars

-----------------------------------------------------------------------------
(* Properties of the pipeline (specification Spec) *)

\* The levels solved so far in the current track() call, in order
SolvedLevels == [i \in 1..Len(solve_log) |-> solve_log[i].level]

\* The initial value of the block 'T_1_0' of the i-th Problem of the call
SeedOf(i) == solve_log[i].problem.param_dict[1][2]

\* A track() call after the first one has returned normally
TrackedNormally == pc = "idle" /\ raised = "none" /\ Len(keyframes) >= 2

\* C1: with pyrlevels = N >= 1, a track() call solves exactly one Problem
\* for each of the levels N-1, N-2, ..., 0, in that order, and the relative
\* pose it uses is the output of the solve at level 0.
C1_AllLevelsCoarseToFine ==
    TrackedNormally =>
        /\ SolvedLevels = ReversedRange(pyrlevels)
        /\ solve_log[Len(solve_log)].level = 0
        /\ keyframes[Len(keyframes)].T_1_0 = solve_log[Len(solve_log)].result

\* C2: every level the tracker processes gets a Problem of its own, holding
\* exactly one photometric residual block and exactly one parameter block
\* 'T_1_0'; that block starts at the identity at the coarsest level and
\* otherwise at the value the solve of the next coarser level returned.
C2_FreshProblemSeededFromCoarser ==
    \A i \in 1..Len(solve_log) :
        LET e == solve_log[i]
        IN /\ \A j \in 1..Len(solve_log) :
                  j # i => solve_log[j].problem.id # e.problem.id
           /\ Len(e.problem.residual_blocks) = 1
           /\ e.problem.residual_blocks[1].residual = "PhotometricResidual"
           /\ e.problem.residual_blocks[1].keys = <<"T_1_0">>
           /\ Len(e.problem.param_dict) = 1
           /\ e.problem.param_dict[1][1] = "T_1_0"
           /\ e.level = pyrlevels - i
           /\ IF i = 1
              THEN SeedOf(i) = Identity
              ELSE Some(SeedOf(i)) = solve_log[i - 1].result

\* C2 witness: a second level was seeded with a non-identity result
C2_Witness ==
    /\ Len(solve_log) >= 2
    /\ solve_log[1].result # Some(Identity)
    /\ SeedOf(2) # Identity

\* C3: after any sequence of track() calls there is one keyframe per call;
\* the first has pose first_pose and no relative pose was estimated for it;
\* every later keyframe k has pose T_1_0(k) * T_c_w(k-1).
C3_OneKeyframePerCall ==
    pc = "idle" =>
        /\ Len(keyframes) = calls
        /\ Len(keyframes) >= 1 =>
              /\ keyframes[1].T_c_w = first_pose
              /\ keyframes[1].T_1_0 = None
        /\ \A k \in 2..Len(keyframes) :
              /\ keyframes[k].T_1_0 # None
              /\ keyframes[k].T_c_w =
                    Compose(keyframes[k].T_1_0.value, keyframes[k - 1].T_c_w)

\* C4: a level whose photometric evaluation has no valid residual does not
\* abort the tracker: the level leaves the pose estimate as it entered it,
\* and track() still appends a keyframe.
C4_EmptyLevelContributesNoMotion ==
    \A i \in 1..Len(solve_log) :
        solve_log[i].status = "NoValidResiduals" =>
            /\ raised = "none"
            /\ solve_log[i].result = Some(SeedOf(i))
            /\ pc = "idle" => Len(keyframes) = calls

\* C5: after a level whose solve ended in SolverFailure, the tracker's pose
\* estimate is the estimate the solver held before the failing step.
C5_FailureKeepsLastValidEstimate ==
    \A i \in 1..Len(solve_log) :
        solve_log[i].status = "SolverFailure" =>
            solve_log[i].result = solve_log[i].pre

\* C10: track() never changes the pipeline's own camera; the camera of each
\* level has the base focal lengths and principal point times 1 / 2^level
\* and the width and height of that level's reference image.
C10_CameraScaledPerLevelOnly ==
    /\ camera = BaseCamera
    /\ \A i \in 1..Len(solve_log) :
          LET e == solve_log[i]
              shape == PyramidShapes(FrameShape, pyrlevels)[e.level + 1]
          IN /\ e.pyr_camera.fu * Pow2(e.level) = BaseCamera.fu
             /\ e.pyr_camera.fv * Pow2(e.level) = BaseCamera.fv
             /\ e.pyr_camera.cu * Pow2(e.level) = BaseCamera.cu
             /\ e.pyr_camera.cv * Pow2(e.level) = BaseCamera.cv
             /\ e.pyr_camera.w = shape[2]
             /\ e.pyr_camera.h = shape[1]

\* C10 witness: a third frame has been tracked through at least two levels
C10_Witness ==
    /\ Len(keyframes) >= 3
    /\ Len(solve_log) >= 2
    /\ pc = "idle"

-----------------------------------------------------------------------------
(***************************************************************************)
(* Problem.solve, the Gauss-Newton iteration with tolerated non-decreasing *)
(* steps.  pyslam/problem.py is not among the sources: the state machine   *)
(* is the one of the design text, with the option values the pipeline      *)
(* sets.  A set of parameter values is named by the number of the step     *)
(* that produced it (0 for the initial values); its cost is drawn from     *)
(* Costs.                                                                  *)
(***************************************************************************)

\* self.problem_options.allow_nondecreasing_steps = True
allow_nondecreasing_steps == TRUE

\* (variant of max_nondecreasing_steps: one more tolerated step)
max_nondecreasing_steps_Four == 3 + 1

\* self.problem_options.max_nondecreasing_steps = 3
max_nondecreasing_steps == 3

\* self.problem_options.min_cost_decrease = 0.99, in hundredths
min_cost_decrease_pct == 99

\* Total costs an evaluation may yield: around 100, so that a cost may grow
\* and still stay within current_cost / min_cost_decrease
Costs == 98..102

\* new_cost <= current_cost / min_cost_decrease
WithinBound(new_cost, current_cost) ==
    new_cost * min_cost_decrease_pct <= current_cost * 100

\* Step acceptance (step 5 of the iteration)
StepAccepted(new_cost, current_cost, nondec) ==
    \/ new_cost < current_cost
    \/ /\ allow_nondecreasing_steps
       /\ WithinBound(new_cost, current_cost)
       /\ nondec < max_nondecreasing_steps

HistEntry(cost, base, accepted) ==
    [cost |-> cost, base |-> base, accepted |-> accepted]

SolverInit ==
    /\ s_state = "Initialized"
    /\ s_cur = 0
    /\ s_cost \in Costs
    /\ s_best = 0
    /\ s_best_cost = s_cost
    /\ s_nondec = 0
    /\ s_iters = 0
    /\ s_hist = <<HistEntry(s_cost, s_cost, TRUE)>>
    /\ s_ret = None

others_parked_for_solver == UNCHANGED <<pipeline_vars, cost_vars>>

\* solve() is entered
SolveStart ==
    /\ s_state = "Initialized"
    /\ s_state' = "Iterating"
    /\ UNCHANGED <<s_cur, s_cost, s_best, s_best_cost, s_nondec, s_iters,
                   s_hist, s_ret>>
    /\ others_parked_for_solver

\* An iteration whose normal equations are singular or not positive definite
IterateFailure ==
    /\ s_state = "Iterating"
    /\ s_state' = "SolverFailure"
    /\ \E mode \in FailureModes :
          s_ret' = IF mode = "undefined" THEN Some(-1) ELSE Some(s_cur)
    /\ UNCHANGED <<s_cur, s_cost, s_best, s_best_cost, s_nondec, s_iters,
                   s_hist>>
    /\ others_parked_for_solver

\* An iteration whose step is accepted; the solve then converges, runs out
\* of iterations, or goes on
IterateAccept ==
    /\ s_state = "Iterating"
    /\ \E new_cost \in Costs, converged \in BOOLEAN :
          LET step == s_iters + 1
              best == IF new_cost < s_best_cost THEN step ELSE s_best
          IN /\ StepAccepted(new_cost, s_cost, s_nondec)
             /\ s_cur' = step
             /\ s_cost' = new_cost
             /\ s_best' = best
             /\ s_best_cost' = IF new_cost < s_best_cost THEN new_cost
                               ELSE s_best_cost
             /\ s_nondec' = IF new_cost < s_cost THEN 0 ELSE s_nondec + 1
             /\ s_iters' = step
             /\ s_hist' = Append(s_hist, HistEntry(new_cost, s_cost, TRUE))
             /\ IF converged
                THEN s_state' = "Converged" /\ s_ret' = Some(best)
                ELSE IF step >= MaxIterations
                THEN s_state' = "MaxIterationsReached" /\ s_ret' = Some(best)
                ELSE UNCHANGED <<s_state, s_ret>>
    /\ others_parked_for_solver

\* An iteration whose step is not accepted: the pending update is dropped
\* and the best values seen are returned
IterateReject ==
    /\ s_state = "Iterating"
    /\ \E new_cost \in Costs :
          /\ ~StepAccepted(new_cost, s_cost, s_nondec)
          /\ s_hist' = Append(s_hist, HistEntry(new_cost, s_cost, FALSE))
    /\ s_iters' = s_iters + 1
    /\ s_state' = "NonDecreasingLimitExceeded"
    /\ s_ret' = Some(s_best)
    /\ UNCHANGED <<s_cur, s_cost, s_best, s_best_cost, s_nondec>>
    /\ others_parked_for_solver

SolverNext == SolveStart \/ IterateFailure \/ IterateAccept \/ IterateReject

SolverSpecInit == PipelineParked /\ SolverInit /\ CostParked

SolverSpec == SolverSpecInit /\ [][SolverNext]_vars

\* The step recorded at position j of the history did not lower the cost
NonImproving(j) == s_hist[j].cost >= s_hist[j].base

\* C6: in every terminal state but SolverFailure the values returned are
\* those of the initial values or of an accepted step, with the lowest cost
\* among them; and three consecutive accepted non-improving steps followed
\* by a fourth non-improving step end in NonDecreasingLimitExceeded with the
\* fourth step rejected.
C6_ReturnsBestRejectsFourth ==
    /\ s_state \in Terminal \ {"SolverFailure"} =>
          /\ s_ret # None
          /\ s_ret.value \in 0..(Len(s_hist) - 1)
          /\ s_hist[s_ret.value + 1].accepted
          /\ \A j \in 1..Len(s_hist) :
                s_hist[j].accepted =>
                    s_hist[s_ret.value + 1].cost <= s_hist[j].cost
    /\ \A k \in 2..(Len(s_hist) - 3) :
          ( /\ \A j \in k..(k + 2) : s_hist[j].accepted /\ NonImproving(j)
            /\ NonImproving(k + 3) )
          => /\ ~s_hist[k + 3].accepted
             /\ k + 3 = Len(s_hist)
             /\ s_state = "NonDecreasingLimitExceeded"

\* C6 witness: three tolerated steps, a fourth one rejected, and the values
\* returned are not those of the last accepted step
C6_Witness ==
    /\ s_state = "NonDecreasingLimitExceeded"
    /\ Len(s_hist) = 5
    /\ \A j \in 2..4 : s_hist[j].accepted /\ NonImproving(j)
    /\ ~s_hist[5].accepted
    /\ s_ret = Some(0)
    /\ s_cur = 3

-----------------------------------------------------------------------------
(* CostSpec: one evaluation of one cost function on the inputs drawn *)

CostInit ==
    /\ c_kind \in CostKinds
    /\ c_in \in InputsOf(c_kind)
    /\ c_flags \in FlagVectors(Len(c_in.params))
    /\ c_out = Pending
    /\ c_ref = Pending

others_parked_for_cost == UNCHANGED <<pipeline_vars, solver_vars>>

\* c_out is the evaluation with the flags drawn, c_ref the one without flags
EvaluateQuadraticCost ==
    /\ c_kind = "QuadraticCost" /\ c_out.status = "pending"
    /\ c_out' = QuadraticCost_evaluate(c_in.self, c_in.params, c_flags)
    /\ c_ref' = QuadraticCost_evaluate(c_in.self, c_in.params, None)
    /\ UNCHANGED <<c_kind, c_in, c_flags>>
    /\ others_parked_for_cost

EvaluatePoseCost ==
    /\ c_kind = "PoseCost" /\ c_out.status = "pending"
    /\ c_out' = PoseCost_evaluate(c_in.self, c_in.params, c_flags)
    /\ c_ref' = PoseCost_evaluate(c_in.self, c_in.params, None)
    /\ UNCHANGED <<c_kind, c_in, c_flags>>
    /\ others_parked_for_cost

EvaluatePoseToPoseCost ==
    /\ c_kind = "PoseToPoseCost" /\ c_out.status = "pending"
    /\ c_out' = PoseToPoseCost_evaluate(c_in.self, c_in.params, c_flags)
    /\ c_ref' = PoseToPoseCost_evaluate(c_in.self, c_in.params, None)
    /\ UNCHANGED <<c_kind, c_in, c_flags>>
    /\ others_parked_for_cost

EvaluateReprojectionCost ==
    /\ c_kind = "ReprojectionCost" /\ c_out.status = "pending"
    /\ c_out' = ReprojectionCost_evaluate(c_in.self, c_in.params, c_flags)
    /\ c_ref' = ReprojectionCost_evaluate(c_in.self, c_in.params, None)
    /\ UNCHANGED <<c_kind, c_in, c_flags>>
    /\ others_parked_for_cost

EvaluatePhotometricCost ==
    /\ c_kind = "PhotometricCost" /\ c_out.status = "pending"
    /\ c_out' = PhotometricCost_evaluate(c_in.self, c_in.params, c_flags)
    /\ c_ref' = PhotometricCost_evaluate(c_in.self, c_in.params, None)
    /\ UNCHANGED <<c_kind, c_in, c_flags>>
    /\ others_parked_for_cost

CostNext ==
    \/ EvaluateQuadraticCost
    \/ EvaluatePoseCost
    \/ EvaluatePoseToPoseCost
    \/ EvaluateReprojectionCost
    \/ EvaluatePhotometricCost

CostSpecInit == PipelineParked /\ SolverParked /\ CostInit

CostSpec == CostSpecInit /\ [][CostNext]_vars

\* The reference pixels that pass both validity filters, in meshgrid order
PassBoth(self) ==
    SelectSeq([i \in 1..self.n |-> i],
              LAMBDA i : self.valid_disp[i] /\ self.valid_warp[i])

\* C7: the photometric residual has one entry for each reference pixel that
\* passes both validity filters, and for no other, in meshgrid order; a
\* Jacobian returned for the pose has one row per residual entry, and row i
\* is computed from the same pixel as residual entry i.
C7_SamePixelsInResidualAndJacobian ==
    (c_kind = "PhotometricCost" /\ c_out.status = "returned") =>
        /\ [i \in 1..Len(c_out.residual) |-> c_out.residual[i].im_ref_true]
              = PassBoth(c_in.self)
        /\ [i \in 1..Len(c_out.residual) |-> c_out.residual[i].im_ref_est]
              = PassBoth(c_in.self)
        /\ (c_out.jacobians # None /\ c_out.jacobians.value[1] # None) =>
              LET J == c_out.jacobians.value[1].value
              IN /\ Len(J) = Len(c_out.residual)
                 /\ \A i \in 1..Len(J) :
                       /\ J[i].im_jac = c_out.residual[i].im_ref_true
                       /\ J[i].project_jac = c_out.residual[i].im_ref_true
                       /\ J[i].pt_track = c_out.residual[i].im_ref_true

\* C7 witness: a Jacobian was returned for an image in which one pixel fails
\* the first filter, a later one only the second, and a still later one is kept
C7_Witness ==
    /\ c_kind = "PhotometricCost" /\ c_out.status = "returned"
    /\ c_out.jacobians # None /\ c_out.jacobians.value[1] # None
    /\ Len(c_out.residual) >= 1
    /\ \E i, j, k \in 1..c_in.self.n :
          /\ i < j /\ j < k
          /\ ~c_in.self.valid_disp[i]
          /\ c_in.self.valid_disp[j] /\ ~c_in.self.valid_warp[j]
          /\ c_in.self.valid_disp[k] /\ c_in.self.valid_warp[k]

\* C8: for every cost function and every vector of request flags, evaluate
\* returns a list with one entry per parameter, entry i is a Jacobian if and
\* only if flag i is set, and the residual is the one returned without flags.
C8_JacobiansExactlyAsRequested ==
    (c_kind \in CostKinds /\ c_out.status # "pending" /\ ~c_flags.none) =>
        /\ c_out.status = "returned"
        /\ c_out.jacobians # None
        /\ Len(c_out.jacobians.value) = Len(c_in.params)
        /\ \A i \in 1..Len(c_in.params) :
              (c_out.jacobians.value[i] # None) <=> c_flags.value[i]
        /\ c_out.residual = c_ref.residual

\* C9: when the relative observation is the identity and both pose
\* estimates are equal, the residual of PoseToPoseCost is the zero vector.
C9_IdentityLoopHasZeroResidual ==
    ( /\ c_kind = "PoseToPoseCost" /\ c_out.status = "returned"
      /\ c_in.self.T_2_1_obs = Identity
      /\ c_in.params[1] = c_in.params[2] )
    => c_out.residual = <<0, 0, 0>>

\* C9 witness: such an evaluation, of a rotated and translated pose under a
\* stiffness that is not the identity
C9_Witness ==
    /\ c_kind = "PoseToPoseCost" /\ c_out.status = "returned"
    /\ c_in.self.T_2_1_obs = Identity
    /\ c_in.params[1] = c_in.params[2]
    /\ c_in.params[1].r = 1 /\ c_in.params[1].x = 1
    /\ c_in.self.stiffness # IdentityMatrix(Dof)

=============================================================================
